---- MODULE Spec2Model ----
(***************************************************************************)
(* Model of orchestration.py: the sequential patch workflow that resolves  *)
(* five identifiers, then for the server ring and the database ring        *)
(* starts a scan, waits for it, starts a deployment, waits until it is     *)
(* inspectable, fetches its machines, waits for completion and shuts the   *)
(* machines down.  The remote server, the shutdown command and the clock   *)
(* are the environment: every response is chosen nondeterministically.     *)
(***************************************************************************)
EXTENDS Naturals, Sequences, FiniteSets

VARIABLES
    pc,                 \* position of the single thread of control
    ring,               \* the ring __main__ is working on
    error,              \* exception that ended the run ("none" while running)
    credential_id, scan_template_id, machine_group_server_id,
    machine_group_database_id, deployment_template_id,
    scan_id,            \* ring -> machine_group_<ring>_scan_id
    deployment_id,      \* deployment_<ring>_id of the ring in progress
    machines,           \* deployment_<ring>_machines of the ring in progress
    idx,                \* position of the for loop of wait_for_shutdown
    result,             \* exit code returned by the last shutdown command
    response,           \* the response in hand: of the last POST, poll or machine GET
    polls, sleeps, slept,   \* polls / sleeps / seconds slept of the current wait
    polled,             \* operation ids the current wait polled
    succeeded,          \* ids the current wait saw answered 200 / "Succeeded"
    ready,              \* ids the current wait saw reported "PatchDeployment"
    gets,               \* listing GETs issued, in order
    scanPosts,          \* payloads of the scan POSTs issued, in order
    depPosts,           \* payloads of the deployment POSTs issued, in order
    fetches,            \* number of machine GETs issued
    fetched,            \* id in the URL of the machine GET of the deployment
                        \* posted last, empty until that GET is issued
    shutdowns,          \* commands issued by the current call of wait_for_shutdown
    failing,            \* operations the server reports "Failed" from now on
    outstanding,        \* operations started and not yet seen "Succeeded"
    env,                \* how the remote server behaves from now on
    fn_args, fn_ret,    \* arguments and result of a function evaluated on its own
    ss_pc,              \* position of a call of start_server
    session_id,         \* session_id of start_server
    count,              \* count of start_server: <<>> while unbound, else <<n>>
    db_i,               \* position of the for loop of line 399
    connected           \* results of check_sql_server in the pass under way

idvars   == <<credential_id, scan_template_id, machine_group_server_id,
              machine_group_database_id, deployment_template_id>>
opvars   == <<scan_id, deployment_id, machines>>
waitvars == <<polls, sleeps, slept, polled, succeeded, ready>>
reqvars  == <<gets, scanPosts, depPosts, fetches>>
fnvars   == <<fn_args, fn_ret>>
ssvars   == <<ss_pc, session_id, count, db_i, connected>>
vars     == <<pc, ring, error, idvars, opvars, waitvars, reqvars, shutdowns,
              idx, result, response, failing, outstanding, env, fetched, fnvars,
              ssvars>>
\* the variables of a run of __main__
mainvars == <<pc, ring, error, idvars, opvars, waitvars, reqvars, shutdowns,
              idx, result, response, failing, outstanding, env, fetched>>

(***************************************************************************)
(* Bounds of the model.                                                    *)
(***************************************************************************)
MaxPolls    == 2    \* polls one wait may issue
MaxListing  == 2    \* items of a listing's value array
MaxMachines == 2    \* items of a deployment's machine array
MaxLocation == 2    \* characters of a Location header
MaxMissing  == 1    \* configured names the server's listings may lack

Rings == {"server", "database"}

(***************************************************************************)
(* Values.  Python's None, a variable not yet assigned, a JSON member that *)
(* is missing and the absence of a response are distinct markers.          *)
(***************************************************************************)
None      == "None"
Undefined == "<undefined>"
Absent    == "<absent>"
NoResponse == [kind |-> "none"]
NoResult   == [exc |-> "<pending>", val |-> None]

\* config.ini, [Configuration]
run_as_credentials     == "Cred"
scan_template          == "ScanTpl"
deployment_template    == "DeployTpl"
machine_group_server   == "ServerRing"
machine_group_database == "DatabaseRing"

\* the same name in another letter case, as a listing may also contain it
OtherCase(n) ==
    CASE n = "Cred"         -> "cred"
      [] n = "ScanTpl"      -> "scantpl"
      [] n = "DeployTpl"    -> "deploytpl"
      [] n = "ServerRing"   -> "serverring"
      [] n = "DatabaseRing" -> "databasering"
      [] OTHER              -> n

\* status codes the server answers a GET / a POST with
GetCodes  == {200, 500}
PostCodes == {200, 201, 500}

SeqsUpTo(S, n) == UNION {[1..k -> S] : k \in 0..n}

(***************************************************************************)
(* Resolver: get_id_by_name.                                               *)
(***************************************************************************)
ItemIds   == {"id1", "id2"}
\* in a run of the workflow the server knows each configured resource under
\* one id of its own
RunItemIds(n) ==
    CASE n = "Cred"         -> {"cred-1"}
      [] n = "ScanTpl"      -> {"stpl-1"}
      [] n = "DeployTpl"    -> {"dtpl-1"}
      [] n = "ServerRing"   -> {"grp-1"}
      [] n = "DatabaseRing" -> {"grp-2"}
ItemNames(n) == {n, OtherCase(n), Absent}
Items(n, ids) == [name : ItemNames(n), id : ids]

\* bodies a listing GET may carry: not JSON, an object without "value",
\* or an object whose "value" is an array of items
ListingBodies(n, ids) ==
    {[json |-> "invalid", value |-> <<>>], [json |-> "novalue", value |-> <<>>]}
    \cup [json : {"object"}, value : SeqsUpTo(Items(n, ids), MaxListing)]

ListingResponses(n, ids) ==
    [kind : {"listing"}, code : GetCodes, body : ListingBodies(n, ids)]

Returned(v) == [exc |-> "none", val |-> v]
Raised(e)   == [exc |-> e, val |-> None]

\* get_id_by_name comparing the names without regard to letter case
RECURSIVE ScanItems_IgnoreCase(_, _, _)
ScanItems_IgnoreCase(value, n, i) ==
    IF i > Len(value) THEN Returned(None)
    ELSE IF value[i].name = Absent THEN Raised("KeyError")
    ELSE IF OtherCase(value[i].name) = OtherCase(n) THEN Returned(value[i].id)
    ELSE ScanItems_IgnoreCase(value, n, i + 1)

\* the for loop of get_id_by_name from position i on
RECURSIVE ScanItems(_, _, _)
ScanItems(value, n, i) ==
    IF i > Len(value) THEN Returned(None)
    ELSE IF value[i].name = Absent THEN Raised("KeyError")
    ELSE IF value[i].name = n THEN Returned(value[i].id)
    ELSE ScanItems(value, n, i + 1)

get_id_by_name(resp, n) ==
    IF resp.body.json = "invalid" THEN Raised("JSONDecodeError")
    ELSE IF resp.body.json = "novalue" THEN Raised("KeyError")
    ELSE ScanItems(resp.body.value, n, 1)

\* the five resolutions of __main__, in order
Resolutions == <<
    [endpoint |-> "credentials",           name |-> run_as_credentials],
    [endpoint |-> "patch/scanTemplates",   name |-> scan_template],
    [endpoint |-> "machinegroups",         name |-> machine_group_server],
    [endpoint |-> "machinegroups",         name |-> machine_group_database],
    [endpoint |-> "patch/deploytemplates", name |-> deployment_template] >>


(***************************************************************************)
(* Responses of the remote server.                                         *)
(***************************************************************************)
Statuses   == {"Succeeded", "Running", "Failed", Absent}
Operations == {"PatchDeployment", "PatchScan"}

\* body of GET operations/{id}: not JSON, JSON that is not an object, or an
\* object whose members "status" and "operation" may be missing
PollBodies ==
    {[json |-> "invalid", status |-> Absent, operation |-> Absent],
     [json |-> "nonobject", status |-> Absent, operation |-> Absent]}
    \cup [json : {"object"}, status : Statuses, operation : Operations]

PollResponses == [kind : {"poll"}, code : GetCodes, body : PollBodies]

\* what the server answers once the polled operation has failed for good
FailedResponses ==
    [kind : {"poll"}, code : {200},
     body : [json : {"object"}, status : {"Failed"}, operation : Operations]]

\* identifiers are character strings; the server numbers the scans it
\* creates, so the k-th scan POST of a run is answered with the k-th id
ScanIds == <<  <<"s", "1">>, <<"s", "2">>  >>

ScanBodies(fresh) ==
    {[json |-> "invalid", id |-> <<>>], [json |-> "nonobject", id |-> <<>>],
     [json |-> "noid", id |-> <<>>],
     [json |-> "object", id |-> fresh]}

ScanResponses(fresh) == [kind : {"scan"}, code : PostCodes, body : ScanBodies(fresh)]

LocationChars == {"/", "d"}
Locations == SeqsUpTo(LocationChars, MaxLocation)

\* headers with and without Location; the body of the answer carries an
\* id of its own
DeployResponses ==
    [kind : {"deploy"}, code : PostCodes, hasLocation : BOOLEAN,
     Location : Locations, body : [id : {<<"b">>}]]

RawMachines ==
    {[name |-> "srv1", address |-> "10.0.0.5"],
     [name |-> "db1",  address |-> "10.0.0.6"],
     [name |-> "db1",  address |-> Absent]}

MachineBodies ==
    {[json |-> "invalid", value |-> <<>>], [json |-> "novalue", value |-> <<>>]}
    \cup [json : {"object"}, value : SeqsUpTo(RawMachines, MaxMachines)]

MachineResponses == [kind : {"machines"}, code : GetCodes, body : MachineBodies]

ExitCodes == {0, 1}

(***************************************************************************)
(* Pure parts of the handlers.                                             *)
(***************************************************************************)
\* str.split("/"): the segments of s from position i on, cur being the
\* segment under construction
RECURSIVE SplitFrom(_, _, _)
SplitFrom(s, i, cur) ==
    IF i > Len(s) THEN <<cur>>
    ELSE IF s[i] = "/" THEN <<cur>> \o SplitFrom(s, i + 1, <<>>)
    ELSE SplitFrom(s, i + 1, Append(cur, s[i]))

split(s) == SplitFrom(s, 1, <<>>)

\* patch_deployment taking the first segment of the header
LocationId_FirstSegment(resp) ==
    IF ~resp.hasLocation THEN Raised("KeyError")
    ELSE LET segs == split(resp.Location) IN Returned(segs[1])

\* line 266: response.headers["Location"].split("/")[-1]
LocationId(resp) ==
    IF ~resp.hasLocation THEN Raised("KeyError")
    ELSE LET segs == split(resp.Location) IN Returned(segs[Len(segs)])

\* line 218: response.json()["id"]
ScanResult(resp) ==
    IF resp.body.json = "invalid" THEN Raised("JSONDecodeError")
    ELSE IF resp.body.json = "nonobject" THEN Raised("TypeError")
    ELSE IF resp.body.json = "noid" THEN Raised("KeyError")
    ELSE Returned(resp.body.id)

\* start_deployment leaving its loop on any 200 answer, whatever the status
StartDeploymentStep_Any200(resp) ==
    IF resp.code = 200
    THEN IF resp.body.json = "invalid" THEN Raised("JSONDecodeError")
         ELSE IF resp.body.json = "nonobject" THEN Raised("AttributeError")
         ELSE Returned("break")
    ELSE Returned("sleep")

\* start_deployment reading the payload before looking at the status code
StartDeploymentStep_BodyFirst(resp) ==
    IF resp.body.json = "invalid" THEN Raised("JSONDecodeError")
    ELSE IF resp.body.json = "nonobject" THEN Raised("AttributeError")
    ELSE IF resp.body.status = "Succeeded" THEN Returned("break")
    ELSE Returned("sleep")

\* lines 286-292: one pass of the loop of start_deployment;
\* "break" leaves the loop, "sleep" goes round again
StartDeploymentStep(resp) ==
    IF resp.code = 200
    THEN IF resp.body.json = "invalid" THEN Raised("JSONDecodeError")
         ELSE IF resp.body.json = "nonobject" THEN Raised("AttributeError")
         ELSE IF resp.body.status = "Succeeded" THEN Returned("break")
         ELSE Returned("sleep")
    ELSE Returned("sleep")

\* wait_for_shutdown taking any status of a 200 answer for the end
WaitForShutdownStep_AnyStatus(resp) ==
    IF resp.code = 200
    THEN IF resp.body.json = "invalid" THEN Raised("JSONDecodeError")
         ELSE IF resp.body.json = "nonobject" THEN Raised("AttributeError")
         ELSE Returned("break")
    ELSE Returned("sleep")

\* wait_for_shutdown giving up when the deployment reports "Failed"
WaitForShutdownStep_FailedEnds(resp) ==
    IF resp.code = 200
    THEN IF resp.body.json = "invalid" THEN Raised("JSONDecodeError")
         ELSE IF resp.body.json = "nonobject" THEN Raised("AttributeError")
         ELSE IF resp.body.status = "Succeeded" THEN Returned("break")
         ELSE IF resp.body.status = "Failed" THEN Raised("RuntimeError")
         ELSE Returned("sleep")
    ELSE Returned("sleep")

\* lines 356-362: one pass of the loop of wait_for_shutdown
WaitForShutdownStep(resp) ==
    IF resp.code = 200
    THEN IF resp.body.json = "invalid" THEN Raised("JSONDecodeError")
         ELSE IF resp.body.json = "nonobject" THEN Raised("AttributeError")
         ELSE IF resp.body.status = "Succeeded" THEN Returned("break")
         ELSE Returned("sleep")
    ELSE Returned("sleep")

\* the readiness loop waiting for the status as the other loops do
ReadinessStep_StatusToo(resp) ==
    IF resp.body.json = "invalid" THEN Raised("JSONDecodeError")
    ELSE IF resp.body.json = "nonobject" THEN Raised("AttributeError")
    ELSE IF resp.body.operation = "PatchDeployment" /\ resp.body.status = "Succeeded"
         THEN Returned("break")
    ELSE Returned("sleep")

\* lines 306-309: one pass of the readiness loop
ReadinessStep(resp) ==
    IF resp.body.json = "invalid" THEN Raised("JSONDecodeError")
    ELSE IF resp.body.json = "nonobject" THEN Raised("AttributeError")
    ELSE IF resp.body.operation = "PatchDeployment" THEN Returned("break")
    ELSE Returned("sleep")

\* lines 318-321: the records built from the items from position i on
RECURSIVE BuildMachines(_, _, _)
BuildMachines(value, i, acc) ==
    IF i > Len(value) THEN Returned(acc)
    ELSE IF value[i].name = Absent \/ value[i].address = Absent THEN Raised("KeyError")
    ELSE BuildMachines(value, i + 1,
            Append(acc, [machine_name |-> value[i].name,
                         ip_address |-> value[i].address]))

\* lines 317-322
MachinesResult(resp) ==
    IF resp.body.json = "invalid" THEN Raised("JSONDecodeError")
    ELSE IF resp.body.json = "novalue" THEN Raised("KeyError")
    ELSE BuildMachines(resp.body.value, 1, <<>>)

\* the database ring called without its third argument
reboot_behaivior_Default(r) == FALSE

\* lines 434 and 438: the reboot_behaivior argument of wait_for_shutdown
reboot_behaivior(r) == r = "database"

\* lines 333-336: the command line of shutdown
command(ip, reboot) ==
    [flag |-> IF reboot THEN "/r" ELSE "/s", target |-> ip]

\* the for loop left as soon as a command returns a non-zero exit code
LoopDone_StopOnFailure(i, list) == i = Len(list) \/ result' # 0

\* the for loop left after its first pass
LoopDone_First(i, list) == TRUE

\* line 365: the for loop is over once the machine at position i is done
LoopDone(i, list) == i = Len(list)

\* both calls of start_deployment given the server ring's scan id
start_deployment_scan_id_Server(r) == scan_id["server"]

\* lines 432 and 436: the scan id __main__ passes to start_deployment
start_deployment_scan_id(r) == scan_id[r]

\* both scans started on the server ring's machine group
machine_group_id_Server(r) == machine_group_server_id

\* lines 431 and 435: the machine group of a ring's scan
machine_group_id(r) ==
    IF r = "server" THEN machine_group_server_id ELSE machine_group_database_id

\* lines 249-252: the body of the deployment POST
DeploymentPayload(scan, template) == [scanId |-> scan, templateId |-> template]

(***************************************************************************)
(* The workflow.  The server ring's deployment id and machine list are not *)
(* read after line 434, so the model keeps one deployment_id and one       *)
(* machines: those of the ring in progress.                                *)
(***************************************************************************)
\* before line 426: nothing is resolved, nothing was requested
InitRun ==
    /\ pc = "resolve"
    /\ ring = "server"
    /\ error = "none"
    /\ credential_id = Undefined
    /\ scan_template_id = Undefined
    /\ machine_group_server_id = Undefined
    /\ machine_group_database_id = Undefined
    /\ deployment_template_id = Undefined
    /\ scan_id = [r \in Rings |-> <<>>]
    /\ deployment_id = <<>>
    /\ machines = <<>>
    /\ idx = 1
    /\ result = 0
    /\ response = NoResponse
    /\ polls = 0
    /\ sleeps = 0
    /\ slept = 0
    /\ polled = {}
    /\ succeeded = {}
    /\ ready = {}
    /\ gets = <<>>
    /\ scanPosts = <<>>
    /\ depPosts = <<>>
    /\ fetches = 0
    /\ fetched = <<>>
    /\ shutdowns = <<>>
    /\ failing = {}
    /\ outstanding = {}
    /\ ss_pc = "login"
    /\ session_id = Undefined
    /\ count = <<>>
    /\ db_i = 1
    /\ connected = <<>>

Init ==
    /\ InitRun
    /\ env = "any"
    /\ fn_args = <<>>
    /\ fn_ret = NoResult

Abort(e) == /\ pc' = "aborted"
            /\ error' = e

\* a wait starts with no poll and no sleep behind it
EnterWait == /\ polls' = 0
             /\ sleeps' = 0
             /\ slept' = 0
             /\ polled' = {}
             /\ succeeded' = {}
             /\ ready' = {}

\* what a poll of operation id by a completion wait shows of its status
ObserveStatus(id, resp) ==
    /\ polled' = polled \cup {id}
    /\ succeeded' = IF resp.code = 200 /\ resp.body.json = "object"
                       /\ resp.body.status = "Succeeded"
                    THEN succeeded \cup {id} ELSE succeeded
    /\ ready' = ready

\* what a poll of operation id by the readiness wait shows of its kind
ObserveOperation(id, resp) ==
    /\ polled' = polled \cup {id}
    /\ ready' = IF resp.body.json = "object" /\ resp.body.operation = "PatchDeployment"
                THEN ready \cup {id} ELSE ready
    /\ succeeded' = succeeded

\* a POST starts the ring's scan / deployment on the server
Started(kind) == outstanding' = outstanding \cup {<<ring, kind>>}

\* a completion poll answered 200 / "Succeeded" shows the operation is over
Observed(kind, resp) ==
    outstanding' = IF resp.code = 200 /\ resp.body.json = "object"
                      /\ resp.body.status = "Succeeded"
                   THEN outstanding \ {<<ring, kind>>} ELSE outstanding

\* configured names the listings fetched so far did not contain
Missing == Cardinality({k \in 1..5 : idvars[k] = None})

\* a poll answered 200 with the value the wait at this position awaits
AwaitedResponses ==
    {r \in PollResponses :
        /\ r.code = 200
        /\ r.body.json = "object"
        /\ IF pc = "ready_poll" THEN r.body.operation = "PatchDeployment"
           ELSE r.body.status = "Succeeded"}

\* the answers the server may give to a poll of the ring's scan / deployment
PollAnswers(kind) ==
    IF env = "settled" THEN AwaitedResponses
    ELSE IF <<ring, kind>> \in failing THEN FailedResponses
    ELSE PollResponses

\* a wait goes on polling for as long as it takes; the model follows it
\* through MaxPolls polls of a server that has not settled
MayPoll == polls < MaxPolls \/ env = "settled"

\* the answers the server may give to the other calls: any answer, or,
\* where every call other than a status poll succeeds, the answers the
\* call returns a value from
ListingAnswers(n) ==
    {r \in ListingResponses(n, RunItemIds(n)) :
        env # "any" => r.code = 200 /\ get_id_by_name(r, n).exc = "none"
                                   /\ get_id_by_name(r, n).val # None}

ScanAnswers(fresh) ==
    {r \in ScanResponses(fresh) :
        env # "any" => r.code \in {200, 201} /\ ScanResult(r).exc = "none"}

DeployAnswers ==
    {r \in DeployResponses :
        env # "any" => r.code \in {200, 201} /\ LocationId(r).exc = "none"}

MachineAnswers ==
    {r \in MachineResponses :
        env # "any" => r.code = 200 /\ MachinesResult(r).exc = "none"}

\* lines 426-430: the next of the five get_*_id calls
Resolve ==
    /\ pc = "resolve"
    /\ LET k == Len(gets) + 1
           q == Resolutions[k]
       IN \E resp \in ListingAnswers(q.name) :
            LET r == get_id_by_name(resp, q.name) IN
            /\ (r.exc = "none" /\ r.val = None) => Missing < MaxMissing
            /\ gets' = Append(gets, q.endpoint)
            /\ IF r.exc # "none"
               THEN /\ Abort(r.exc)
                    /\ UNCHANGED idvars
               ELSE /\ pc' = IF k = Len(Resolutions) THEN "scan_post" ELSE "resolve"
                    /\ error' = error
                    /\ credential_id' = IF k = 1 THEN r.val ELSE credential_id
                    /\ scan_template_id' = IF k = 2 THEN r.val ELSE scan_template_id
                    /\ machine_group_server_id' = IF k = 3 THEN r.val ELSE machine_group_server_id
                    /\ machine_group_database_id' = IF k = 4 THEN r.val ELSE machine_group_database_id
                    /\ deployment_template_id' = IF k = 5 THEN r.val ELSE deployment_template_id
    /\ UNCHANGED <<ring, opvars, waitvars, scanPosts, depPosts, fetches,
                   shutdowns, idx, result, response, failing, fnvars,
                   outstanding, env,
                   fetched, ssvars>>

\* lines 188-218, called at lines 431 and 435
scan_machine_group ==
    /\ pc = "scan_post"
    /\ \E resp \in ScanAnswers(ScanIds[Len(scanPosts) + 1]) :
         LET r == ScanResult(resp) IN
         /\ scanPosts' = Append(scanPosts,
                [machineGroupIds |-> <<machine_group_id(ring)>>,
                 templateId |-> scan_template_id,
                 runAsCredentialId |-> credential_id])
         /\ response' = resp
         /\ Started("scan")
         /\ IF r.exc # "none"
            THEN /\ Abort(r.exc)
                 /\ UNCHANGED <<scan_id, waitvars>>
            ELSE /\ scan_id' = [scan_id EXCEPT ![ring] = r.val]
                 /\ pc' = "scan_poll"
                 /\ error' = error
                 /\ EnterWait
    /\ UNCHANGED <<ring, idvars, deployment_id, machines, gets, depPosts,
                   fetches, shutdowns, idx, result, failing, fnvars,
                   env,
                   fetched, ssvars>>

\* lines 285-291: a poll of the scan by start_deployment
ScanPoll ==
    /\ pc = "scan_poll"
    /\ MayPoll
    /\ \E resp \in PollAnswers("scan") :
         LET r == StartDeploymentStep(resp) IN
         /\ response' = resp
         /\ polls' = polls + 1
         /\ ObserveStatus(scan_id[ring], resp)
         /\ Observed("scan", resp)
         /\ IF r.exc # "none" THEN Abort(r.exc)
            ELSE /\ pc' = IF r.val = "break" THEN "deploy_post" ELSE "scan_sleep"
                 /\ error' = error
    /\ UNCHANGED <<ring, idvars, opvars, sleeps, slept, reqvars, shutdowns, idx,
                   result, failing, fnvars,
                   env,
                   fetched, ssvars>>

\* start_deployment posting the scan again after each sleep
ScanSleep_Repost ==
    /\ pc = "scan_sleep"
    /\ sleeps' = sleeps + 1
    /\ slept' = slept + 30
    /\ pc' = "scan_post"
    /\ response' = NoResponse
    /\ UNCHANGED <<ring, error, idvars, opvars, polls, polled, succeeded, ready,
                   reqvars, shutdowns, idx, result, failing, fnvars,
                   outstanding, env,
                   fetched, ssvars>>

\* lines 292-293: time.sleep(30)
ScanSleep ==
    /\ pc = "scan_sleep"
    /\ sleeps' = sleeps + 1
    /\ slept' = slept + 30
    /\ pc' = "scan_poll"
    /\ response' = NoResponse
    /\ UNCHANGED <<ring, error, idvars, opvars, polls, polled, succeeded, ready,
                   reqvars, shutdowns, idx, result, failing, fnvars,
                   outstanding, env,
                   fetched, ssvars>>

\* lines 238-267, called at line 295
patch_deployment ==
    /\ pc = "deploy_post"
    /\ \E resp \in DeployAnswers :
         LET r == LocationId(resp) IN
         /\ depPosts' = Append(depPosts,
                DeploymentPayload(start_deployment_scan_id(ring),
                                  deployment_template_id))
         /\ response' = resp
         /\ Started("deployment")
         /\ fetched' = <<>>
         /\ IF r.exc # "none"
            THEN /\ Abort(r.exc)
                 /\ UNCHANGED <<deployment_id, waitvars>>
            ELSE /\ deployment_id' = r.val
                 /\ pc' = "ready_poll"
                 /\ error' = error
                 /\ EnterWait
    /\ UNCHANGED <<ring, idvars, scan_id, machines, gets, scanPosts,
                   fetches, shutdowns, idx, result, failing, fnvars,
                   env, ssvars>>

\* lines 305-308: a poll of the deployment by get_patch_deployment_machines
ReadyPoll ==
    /\ pc = "ready_poll"
    /\ MayPoll
    /\ \E resp \in PollAnswers("deployment") :
         LET r == ReadinessStep(resp) IN
         /\ response' = resp
         /\ polls' = polls + 1
         /\ ObserveOperation(deployment_id, resp)
         /\ IF r.exc # "none" THEN Abort(r.exc)
            ELSE /\ pc' = IF r.val = "break" THEN "fetch" ELSE "ready_sleep"
                 /\ error' = error
    /\ UNCHANGED <<ring, idvars, opvars, sleeps, slept, reqvars, shutdowns, idx,
                   result, failing, fnvars,
                   outstanding, env,
                   fetched, ssvars>>

\* the readiness wait sleeping as long as the completion waits do
ReadySleep_Thirty ==
    /\ pc = "ready_sleep"
    /\ sleeps' = sleeps + 1
    /\ slept' = slept + 30
    /\ pc' = "ready_poll"
    /\ response' = NoResponse
    /\ UNCHANGED <<ring, error, idvars, opvars, polls, polled, succeeded, ready,
                   reqvars, shutdowns, idx, result, failing, fnvars,
                   outstanding, env,
                   fetched, ssvars>>

\* line 309: time.sleep(5)
ReadySleep ==
    /\ pc = "ready_sleep"
    /\ sleeps' = sleeps + 1
    /\ slept' = slept + 5
    /\ pc' = "ready_poll"
    /\ response' = NoResponse
    /\ UNCHANGED <<ring, error, idvars, opvars, polls, polled, succeeded, ready,
                   reqvars, shutdowns, idx, result, failing, fnvars,
                   outstanding, env,
                   fetched, ssvars>>

\* lines 311-322: the machine GET of get_patch_deployment_machines; on
\* return __main__ calls wait_for_shutdown with the list (lines 434, 438)
FetchMachines ==
    /\ pc = "fetch"
    /\ \E resp \in MachineAnswers :
         LET r == MachinesResult(resp) IN
         /\ fetches' = fetches + 1
         /\ fetched' = deployment_id
         /\ response' = resp
         /\ IF r.exc # "none"
            THEN /\ Abort(r.exc)
                 /\ UNCHANGED <<machines, waitvars, shutdowns, idx>>
            ELSE /\ machines' = r.val
                 /\ pc' = "done_poll"
                 /\ error' = error
                 /\ EnterWait
                 /\ shutdowns' = <<>>
                 /\ idx' = 1
    /\ UNCHANGED <<ring, idvars, scan_id, deployment_id, gets, scanPosts,
                   depPosts, result, failing, fnvars,
                   outstanding, env, ssvars>>

\* __main__ ending after the server ring
AfterRing_ServerOnly ==
    /\ ring' = ring
    /\ pc' = "finished"

\* where __main__ goes on once the for loop of wait_for_shutdown is over
AfterRing ==
    IF ring = "server"
    THEN /\ ring' = "database"
         /\ pc' = "scan_post"
    ELSE /\ ring' = ring
         /\ pc' = "finished"

\* lines 355-361: a poll of the deployment by wait_for_shutdown
DonePoll ==
    /\ pc = "done_poll"
    /\ MayPoll
    /\ \E resp \in PollAnswers("deployment") :
         LET r == WaitForShutdownStep(resp) IN
         /\ response' = resp
         /\ polls' = polls + 1
         /\ ObserveStatus(deployment_id, resp)
         /\ Observed("deployment", resp)
         /\ IF r.exc # "none"
            THEN /\ Abort(r.exc)
                 /\ ring' = ring
            ELSE /\ error' = error
                 /\ IF r.val = "sleep"
                    THEN /\ pc' = "done_sleep"
                         /\ ring' = ring
                    ELSE IF machines = <<>>
                    THEN AfterRing
                    ELSE /\ pc' = "shutdown"
                         /\ ring' = ring
    /\ UNCHANGED <<idvars, opvars, sleeps, slept, reqvars, shutdowns, idx, result,
                   failing, fnvars,
                   env,
                   fetched, ssvars>>

\* lines 362-363: time.sleep(30)
DoneSleep ==
    /\ pc = "done_sleep"
    /\ sleeps' = sleeps + 1
    /\ slept' = slept + 30
    /\ pc' = "done_poll"
    /\ response' = NoResponse
    /\ UNCHANGED <<ring, error, idvars, opvars, polls, polled, succeeded, ready,
                   reqvars, shutdowns, idx, result, failing, fnvars,
                   outstanding, env,
                   fetched, ssvars>>

\* lines 324-341, called at line 366 for the machine at position idx
shutdown ==
    /\ pc = "shutdown"
    /\ idx <= Len(machines)
    /\ \E code \in ExitCodes :
         /\ shutdowns' = Append(shutdowns,
                [ip |-> machines[idx].ip_address,
                 reboot |-> reboot_behaivior(ring),
                 command |-> command(machines[idx].ip_address,
                                     reboot_behaivior(ring))])
         /\ result' = code
    /\ idx' = idx + 1
    /\ IF LoopDone(idx, machines)
       THEN AfterRing
       ELSE /\ pc' = "shutdown"
            /\ ring' = ring
    /\ UNCHANGED <<error, idvars, opvars, waitvars, reqvars, response, failing,
                   fnvars,
                   outstanding, env,
                   fetched, ssvars>>

\* the remote server: the operation under way fails for good
OperationFails ==
    /\ env # "settled"
    /\ \/ /\ pc \in {"scan_poll", "scan_sleep"}
          /\ <<ring, "scan">> \notin failing
          /\ failing' = failing \cup {<<ring, "scan">>}
       \/ /\ pc \in {"done_poll", "done_sleep"}
          /\ <<ring, "deployment">> \notin failing
          /\ failing' = failing \cup {<<ring, "deployment">>}
    /\ UNCHANGED <<pc, ring, error, idvars, opvars, waitvars, reqvars, shutdowns,
                   idx, result, response, fnvars,
                   outstanding, env,
                   fetched, ssvars>>

Next ==
    \/ Resolve
    \/ scan_machine_group
    \/ ScanPoll
    \/ ScanSleep
    \/ patch_deployment
    \/ ReadyPoll
    \/ ReadySleep
    \/ FetchMachines
    \/ DonePoll
    \/ DoneSleep
    \/ shutdown
    \/ OperationFails

Spec == Init /\ [][Next]_vars

(***************************************************************************)
(* The workflow against a server that answers every call other than a      *)
(* status poll successfully and whose operations come to an end: from some *)
(* point on every poll is answered 200 with the awaited value.  The script *)
(* is one thread that is never suspended: its next step is always taken.   *)
(***************************************************************************)
InitLive ==
    /\ InitRun
    /\ env = "calls_succeed"
    /\ fn_args = <<>>
    /\ fn_ret = NoResult

\* the remote server: from now on the operations polled are over
ServerSettles ==
    /\ env = "calls_succeed"
    /\ failing = {}
    /\ env' = "settled"
    /\ UNCHANGED <<pc, ring, error, idvars, opvars, waitvars, reqvars, shutdowns,
                   idx, result, response, failing, outstanding, fetched,
                   fnvars, ssvars>>

\* the steps of the script
Program ==
    \/ Resolve
    \/ scan_machine_group
    \/ ScanPoll
    \/ ScanSleep
    \/ patch_deployment
    \/ ReadyPoll
    \/ ReadySleep
    \/ FetchMachines
    \/ DonePoll
    \/ DoneSleep
    \/ shutdown

NextLive ==
    \/ Program
    \/ OperationFails
    \/ ServerSettles

SpecLive == InitLive /\ [][NextLive]_vars /\ WF_vars(Program)

(***************************************************************************)
(* get_id_by_name on its own: a listing answer and a name are given, the   *)
(* call returns.                                                           *)
(***************************************************************************)
ConfiguredNames == {Resolutions[k].name : k \in 1..Len(Resolutions)}

ResolverInputs ==
    UNION {{<<resp, n>> : resp \in ListingResponses(n, ItemIds)} : n \in ConfiguredNames}

InitResolver ==
    /\ InitRun
    /\ env = "any"
    /\ fn_args \in ResolverInputs
    /\ fn_ret = NoResult

\* lines 149-174: the call returns or raises
CallGetIdByName ==
    /\ fn_ret = NoResult
    /\ fn_ret' = get_id_by_name(fn_args[1], fn_args[2])
    /\ UNCHANGED <<pc, ring, error, idvars, opvars, waitvars, reqvars, shutdowns,
                   idx, result, response, failing, fn_args,
                   outstanding, env,
                   fetched, ssvars>>

SpecResolver == InitResolver /\ [][CallGetIdByName]_vars

(***************************************************************************)
(* start_server on its own: __main__ never calls it.  The arguments are a  *)
(* list of server machines and a list of database machines, as             *)
(* get_patch_deployment_machines returns them.                             *)
(***************************************************************************)
MachineRecords ==
    {[machine_name |-> m.name, ip_address |-> m.address] :
        m \in {r \in RawMachines : r.address # Absent}}

StartServerInputs ==
    {<<srv, dbs>> : srv \in SeqsUpTo(MachineRecords, MaxMachines),
                    dbs \in SeqsUpTo(MachineRecords, MaxMachines)}

\* answers to the login POST of line 390: not JSON, no "value", a session
LoginBodies == {[json |-> "invalid", value |-> Absent],
                [json |-> "novalue", value |-> Absent],
                [json |-> "object", value |-> "sess-1"]}

\* line 391: response.json()['value']
SessionResult(body) ==
    IF body.json = "invalid" THEN Raised("JSONDecodeError")
    ELSE IF body.json = "novalue" THEN Raised("KeyError")
    ELSE Returned(body.value)

\* lines 400-402: count = 0, then count += 1 if the machine answered
CountAfter(c, ok) == << IF ok THEN 1 ELSE 0 >>

\* line 403, database_machines.len(): a Python list has no attribute len
list_len(list) == Raised("AttributeError")

\* line 403, the left operand first: count is unbound when the for loop
\* had nothing to go through
Comparison(c, list) ==
    IF c = <<>> THEN Raised("UnboundLocalError")
    ELSE LET n == list_len(list)
         IN IF n.exc # "none" THEN n ELSE Returned(c[1] = n.val)

InitStartServer ==
    /\ InitRun
    /\ env = "any"
    /\ fn_args \in StartServerInputs
    /\ fn_ret = NoResult

\* lines 387-391: the login at the vCenter
start_server_login ==
    /\ ss_pc = "login"
    /\ \E body \in LoginBodies :
         LET r == SessionResult(body) IN
         IF r.exc # "none"
         THEN /\ ss_pc' = "aborted"
              /\ fn_ret' = r
              /\ session_id' = session_id
         ELSE /\ ss_pc' = IF fn_args[2] = <<>> THEN "compare" ELSE "check"
              /\ fn_ret' = fn_ret
              /\ session_id' = r.val
    /\ UNCHANGED <<mainvars, fn_args, count, db_i, connected>>

\* lines 368-375 called at line 401 for the database machine at db_i:
\* the connection to port 1434 is accepted or not
check_sql_server ==
    /\ ss_pc = "check"
    /\ \E ok \in BOOLEAN :
         /\ connected' = Append(connected, ok)
         /\ count' = CountAfter(count, ok)
    /\ db_i' = db_i + 1
    /\ ss_pc' = IF db_i = Len(fn_args[2]) THEN "compare" ELSE "check"
    /\ UNCHANGED <<mainvars, fnvars, session_id>>

\* lines 403-405: the test that ends the while loop
start_server_compare ==
    /\ ss_pc = "compare"
    /\ LET r == Comparison(count, fn_args[2]) IN
       IF r.exc # "none"
       THEN /\ ss_pc' = "aborted"
            /\ fn_ret' = r
       ELSE /\ ss_pc' = IF r.val THEN "power_on" ELSE "sleep"
            /\ fn_ret' = fn_ret
    /\ UNCHANGED <<mainvars, fn_args, session_id, count, db_i, connected>>

NextStartServer ==
    \/ start_server_login
    \/ check_sql_server
    \/ start_server_compare

SpecStartServer == InitStartServer /\ [][NextStartServer]_vars

(***************************************************************************)
(* Vocabulary of the properties.                                           *)
(***************************************************************************)
CompletionPolls == {"scan_poll", "done_poll"}
SleepOf(p) == CASE p = "scan_poll"  -> "scan_sleep"
                [] p = "ready_poll" -> "ready_sleep"
                [] p = "done_poll"  -> "done_sleep"

\* this step is a poll issued by the wait at position p
PollBy(p) == pc = p /\ polls' = polls + 1

\* this step leaves the wait at position p normally
Leaves(p) == pc = p /\ pc' \notin {p, SleepOf(p), "aborted"}

\* the payload of a response reports the status "Succeeded"
ReportsSucceeded(resp) == resp.body.json = "object" /\ resp.body.status = "Succeeded"

ScanPostStep   == Len(scanPosts') = Len(scanPosts) + 1
DeployPostStep == Len(depPosts') = Len(depPosts) + 1
FetchStep      == fetches' = fetches + 1
ShutdownStep   == Len(shutdowns') = Len(shutdowns) + 1

(***************************************************************************)
(* C1: a completion wait ends exactly on a poll whose payload reports      *)
(* "Succeeded".                                                            *)
(***************************************************************************)
\* the deployment POST follows a poll of the ring's scan id that was
\* answered 200 / "Succeeded"
C1_DeployAfterSucceeded == DeployPostStep => scan_id[ring] \in succeeded

\* every shutdown follows a poll of the deployment id answered 200 / "Succeeded"
C1_ShutdownAfterSucceeded == ShutdownStep => deployment_id \in succeeded

\* a completion wait is left only on a poll answered 200 / "Succeeded"
C1_NeverBefore ==
    \A p \in CompletionPolls :
        Leaves(p) => PollBy(p) /\ response'.code = 200 /\ ReportsSucceeded(response')

\* as claimed: every polled payload that reports "Succeeded" ends the wait
C1_EndsOnAnySucceeded ==
    \A p \in CompletionPolls :
        PollBy(p) /\ ReportsSucceeded(response') => Leaves(p)

\* as the code has it: a payload that reports "Succeeded" in a 200 answer does
C1_EndsOn200Succeeded ==
    \A p \in CompletionPolls :
        PollBy(p) /\ response'.code = 200 /\ ReportsSucceeded(response') => Leaves(p)

\* C1 as claimed: the POST and the shutdowns come only after a poll that
\* reported "Succeeded", and whenever a polled payload reports "Succeeded"
\* the wait ends on that poll
C1_Original ==
    [][C1_DeployAfterSucceeded /\ C1_ShutdownAfterSucceeded /\ C1_NeverBefore
       /\ C1_EndsOnAnySucceeded]_vars

\* C1 amended: the deployment POST and the shutdowns come only after a poll
\* of the ring's scan id / deployment id that reported "Succeeded", the wait
\* is never left before, and whenever a poll answered with status code 200
\* reports "Succeeded" the wait ends on that poll
C1_Amended ==
    [][C1_DeployAfterSucceeded /\ C1_ShutdownAfterSucceeded /\ C1_NeverBefore
       /\ C1_EndsOn200Succeeded]_vars

\* the database ring's shutdowns begin after a wait that needed two polls
C1_Witness ==
    /\ pc = "shutdown"
    /\ ring = "database"
    /\ polls > 1
    /\ deployment_id \in succeeded

(***************************************************************************)
(* C2: the stages happen in one fixed order, and the database ring         *)
(* strictly follows the server ring.                                       *)
(***************************************************************************)
\* the ring whose scan was posted last
PostedRing == IF Len(scanPosts) = 1 THEN "server" ELSE "database"

\* a listing GET is issued before any scan POST
C2_Resolve == Len(gets') > Len(gets) => scanPosts = <<>>

\* a scan POST is issued when all five names are resolved and every stage of
\* the ring before is over, all its shutdown commands included; the first
\* is for the server group, the second for the database group
C2_ScanPost ==
    ScanPostStep =>
        /\ Len(gets) = 5
        /\ Len(scanPosts) <= 1
        /\ Len(depPosts) = Len(scanPosts)
        /\ fetches = Len(scanPosts)
        /\ Len(scanPosts) = 1 =>
              /\ deployment_id \in succeeded
              /\ Len(shutdowns) = Len(machines)
        /\ scanPosts'[Len(scanPosts')].machineGroupIds =
              << IF Len(scanPosts) = 0 THEN machine_group_server_id
                 ELSE machine_group_database_id >>

\* a poll between a scan POST and its deployment POST is of that scan; any
\* other poll is of the deployment posted last and precedes its shutdowns
C2_Poll ==
    polls' = polls + 1 =>
        /\ Len(scanPosts) >= 1
        /\ IF Len(scanPosts) > Len(depPosts)
           THEN polled' = {scan_id[PostedRing]}
           ELSE /\ polled' = {deployment_id}
                /\ fetches = Len(depPosts) => shutdowns = <<>>

\* a deployment POST follows the scan POST of its ring and the scan wait
C2_DeployPost ==
    DeployPostStep =>
        /\ Len(depPosts) + 1 = Len(scanPosts)
        /\ fetches = Len(depPosts)
        /\ polls >= 1
        /\ polled = {scan_id[PostedRing]}

\* the machine GET follows the deployment POST of its ring and the
\* readiness wait
C2_Fetch ==
    FetchStep =>
        /\ Len(depPosts) = Len(scanPosts)
        /\ fetches + 1 = Len(depPosts)
        /\ polls >= 1
        /\ polled = {deployment_id}

\* a shutdown follows the machine GET of its ring and the completion wait
C2_Shutdown ==
    ShutdownStep =>
        /\ Len(depPosts) = Len(scanPosts)
        /\ fetches = Len(depPosts)
        /\ deployment_id \in succeeded
        /\ Len(shutdowns) < Len(machines)

\* C2: scan POST, scan wait, deployment POST, readiness wait, machine GET,
\* completion wait and shutdowns happen in this order for the server group,
\* and only after the last server shutdown for the database group
C2_FixedOrder ==
    [][C2_Resolve /\ C2_ScanPost /\ C2_Poll /\ C2_DeployPost /\ C2_Fetch
       /\ C2_Shutdown]_vars

\* the database scan is under way after two server shutdowns
C2_Witness ==
    /\ Len(scanPosts) = 2
    /\ pc = "scan_sleep"
    /\ Len(shutdowns) = 2

(***************************************************************************)
(* C3: a shutdown targets exactly the machines its deployment returned.    *)
(***************************************************************************)
\* the ring whose machine GET returned the list in hand: the database ring
\* once its GET, the second of the run, has returned a list
FetchedRing ==
    IF fetches = 2 /\ ~(response.kind = "machines" /\ pc = "aborted")
    THEN "database" ELSE "server"

\* the list in hand is the one the machine GET returned, address by address
C3_ListAsFetched ==
    (response.kind = "machines" /\ pc # "aborted") =>
        /\ Len(machines) = Len(response.body.value)
        /\ \A i \in 1..Len(machines) :
              machines[i].ip_address = response.body.value[i].address

\* the commands issued so far go to the first machines of the list, in order
\* and one each, with reboot = FALSE in the server ring and TRUE in the
\* database ring
C3_CommandsFollowList ==
    /\ Len(shutdowns) <= Len(machines)
    /\ \A i \in 1..Len(shutdowns) :
          /\ shutdowns[i].ip = machines[i].ip_address
          /\ shutdowns[i].reboot = (FetchedRing = "database")
          /\ shutdowns[i].command =
                [flag |-> IF FetchedRing = "database" THEN "/r" ELSE "/s",
                 target |-> machines[i].ip_address]

\* once a ring is over every machine of its list has had its command
C3_AllShutDown ==
    (pc = "finished" \/ Len(scanPosts) > fetches) =>
        Len(shutdowns) = Len(machines)

\* one machine GET per deployment: the list is not fetched again
C3_FetchedOnce == fetches <= Len(depPosts)

\* C3: for each ring the shutdown commands are the addresses of the list its
\* machine GET returned, in order, one command per entry (none for an empty
\* list), with reboot = FALSE for the server ring and TRUE for the database
\* ring
C3_ShutdownTargets ==
    /\ C3_ListAsFetched
    /\ C3_CommandsFollowList
    /\ C3_AllShutDown
    /\ C3_FetchedOnce

\* the database ring has rebooted its two different machines
C3_Witness ==
    /\ pc = "finished"
    /\ Len(shutdowns) = 2
    /\ shutdowns[1].ip # shutdowns[2].ip
    /\ shutdowns[2].reboot

(***************************************************************************)
(* C4: a deployment references exactly one scan's results.                 *)
(***************************************************************************)
RingNo(i) == IF i = 1 THEN "server" ELSE "database"

\* C4: the scanId of a ring's deployment POST is the id that ring's scan
\* POST returned, the id the scan wait before it polled, and no scan id is
\* sent in two deployment POSTs; a finished run has sent each in one
C4_OneScanPerDeployment ==
    /\ (response.kind = "scan" /\ pc # "aborted") => scan_id[ring] = response.body.id
    /\ Len(depPosts) <= Len(scanPosts)
    /\ \A i \in 1..Len(depPosts) : depPosts[i].scanId = scan_id[RingNo(i)]
    /\ \A i, j \in 1..Len(depPosts) :
          i # j => depPosts[i].scanId # depPosts[j].scanId
    /\ pc = "deploy_post" => polled = {scan_id[ring]}
    /\ pc = "finished" => Len(depPosts) = 2

\* the database ring's deployment has been posted
C4_Witness ==
    /\ Len(depPosts) = 2
    /\ pc = "ready_poll"
    /\ depPosts[2].scanId = scan_id["database"]

(***************************************************************************)
(* C5: the readiness wait ends exactly on a payload whose operation is     *)
(* "PatchDeployment".                                                      *)
(***************************************************************************)
ReportsDeployment(resp) ==
    resp.body.json = "object" /\ resp.body.operation = "PatchDeployment"

\* the machine GET is issued with the payload that reported
\* "PatchDeployment" still in hand: no poll lies between the two
C5_FetchAfterReady ==
    FetchStep =>
        /\ deployment_id \in ready
        /\ response.kind = "poll"
        /\ ReportsDeployment(response)

\* the wait is left for the machine GET, and only on such a payload
C5_NeverBefore ==
    Leaves("ready_poll") =>
        /\ PollBy("ready_poll")
        /\ ReportsDeployment(response')
        /\ pc' = "fetch"

\* the first such payload ends the wait, whatever its status member and
\* the status code of the answer
C5_EndsOnFirst ==
    PollBy("ready_poll") /\ ReportsDeployment(response') => Leaves("ready_poll")

\* C5: the machine GET is never issued before a polled payload reported the
\* operation "PatchDeployment" and is issued right after the first such
\* payload; the status member plays no part
C5_ReadinessWait ==
    [][C5_FetchAfterReady /\ C5_NeverBefore /\ C5_EndsOnFirst]_vars

\* the wait ended on its second poll, on a payload whose status is "Failed"
C5_Witness ==
    /\ pc = "fetch"
    /\ polls = 2
    /\ response.body.status = "Failed"
    /\ ReportsDeployment(response)

(***************************************************************************)
(* C6: there is no Failed terminal state.                                  *)
(***************************************************************************)
\* a 200 answer with a status other than "Succeeded", "Failed" included,
\* sends a completion wait to its sleep and raises nothing
C6_FailedIsNotTerminal ==
    \A p \in CompletionPolls :
        (/\ PollBy(p)
         /\ response'.code = 200
         /\ response'.body.json = "object"
         /\ response'.body.status # "Succeeded")
        => pc' = SleepOf(p) /\ error' = "none"

\* once the awaited operation reports "Failed" for good, the run stays in
\* that wait: no deployment POST for a failed scan, no shutdown for a failed
\* deployment, no end and no database ring after a failed server ring
C6_FailedNeverProceeds ==
    /\ <<ring, "scan">> \in failing =>
          /\ pc \in {"scan_poll", "scan_sleep"}
          /\ Len(depPosts) < Len(scanPosts)
    /\ <<ring, "deployment">> \in failing =>
          /\ pc \in {"done_poll", "done_sleep"}
          /\ shutdowns = <<>>
    /\ \A k \in {"scan", "deployment"} :
          <<"server", k>> \in failing => ring = "server" /\ Len(scanPosts) = 1

\* C6: a status other than "Succeeded" never ends a completion wait and
\* never raises, and a run whose operation reports "Failed" on every poll
\* from some point on never leaves that wait
C6_NoFailedState == [][C6_FailedIsNotTerminal]_vars /\ []C6_FailedNeverProceeds

\* the server deployment has failed for good and two polls have shown it
C6_Witness ==
    /\ <<"server", "deployment">> \in failing
    /\ pc = "done_sleep"
    /\ polls = 2
    /\ response.body.status = "Failed"

(***************************************************************************)
(* C7: a non-200 answer to a completion poll is "not yet done".            *)
(***************************************************************************)
\* whatever the body, the wait goes to its sleep and raises nothing
C7_Non200Sleeps ==
    \A p \in CompletionPolls :
        PollBy(p) /\ response'.code # 200 => pc' = SleepOf(p) /\ error' = "none"

\* the sleep lasts 30 seconds and is followed by the next poll
C7_SleepThenPoll ==
    \A p \in CompletionPolls :
        pc = SleepOf(p) /\ pc' # pc =>
            /\ pc' = p
            /\ sleeps' = sleeps + 1
            /\ slept' = slept + 30

\* C7: in both completion waits a non-200 answer, whatever its body, leads
\* to a sleep and another poll; it neither ends the wait nor raises
C7_Non200Retried == [][C7_Non200Sleeps /\ C7_SleepThenPoll]_vars

\* a 500 answer whose body reports "Succeeded" has sent the wait to sleep
C7_Witness ==
    /\ pc = "done_sleep"
    /\ response.code = 500
    /\ ReportsSucceeded(response)

\* a 500 answer whose body is not JSON has sent the wait to sleep
C7_WitnessNotJson ==
    /\ pc = "scan_sleep"
    /\ response.code = 500
    /\ response.body.json = "invalid"

(***************************************************************************)
(* C8: get_id_by_name returns the id of the first item named exactly as    *)
(* asked, and None when there is none.                                     *)
(***************************************************************************)
\* the answer is a JSON object with a value array whose items have names
NamedListing(resp) ==
    /\ resp.body.json = "object"
    /\ \A i \in 1..Len(resp.body.value) : resp.body.value[i].name # Absent

\* positions of the items whose name is n, letter for letter
Matches(value, n) == {i \in 1..Len(value) : value[i].name = n}

\* C8: for every listing of named items and every name the call returns,
\* without raising, the id of the earliest item whose name equals the name
\* exactly, and None when no item does
C8_FirstExactMatch ==
    (fn_ret # NoResult /\ NamedListing(fn_args[1])) =>
        LET value == fn_args[1].body.value
            hits  == Matches(value, fn_args[2])
        IN /\ fn_ret.exc = "none"
           /\ hits = {} => fn_ret.val = None
           /\ hits # {} =>
                 \E i \in hits : /\ \A j \in hits : i <= j
                                 /\ fn_ret.val = value[i].id

\* two items share the name and carry different ids: the first one's is
\* returned
C8_Witness ==
    /\ fn_ret # NoResult
    /\ NamedListing(fn_args[1])
    /\ Len(fn_args[1].body.value) = 2
    /\ fn_args[1].body.value[1].name = fn_args[2]
    /\ fn_args[1].body.value[2].name = fn_args[2]
    /\ fn_args[1].body.value[1].id # fn_args[1].body.value[2].id
    /\ fn_ret.val = fn_args[1].body.value[1].id

\* the only item differs from the name in letter case: None is returned
C8_WitnessNone ==
    /\ fn_ret # NoResult
    /\ Len(fn_args[1].body.value) = 1
    /\ fn_args[1].body.value[1].name = OtherCase(fn_args[2])
    /\ fn_ret = Returned(None)

(***************************************************************************)
(* C9: a name that matches no item aborts the run.                         *)
(***************************************************************************)
\* C9 as claimed: once a configured name was found in no item of its
\* listing, no scan POST, no deployment POST and no shutdown is issued
C9_ResolutionFailureAborts ==
    Missing > 0 =>
        /\ Len(scanPosts) = 0
        /\ Len(depPosts) = 0
        /\ Len(shutdowns) = 0

(***************************************************************************)
(* C10: a rejected scan POST or deployment POST aborts the run.            *)
(***************************************************************************)
Is2xx(code) == code >= 200 /\ code < 300

\* C10 as claimed: with the non-2xx answer to a scan POST or a deployment
\* POST in hand the run has failed, whatever the answer's body and headers
C10_RejectedPostAborts ==
    (response.kind \in {"scan", "deploy"} /\ ~Is2xx(response.code)) =>
        pc = "aborted"

(***************************************************************************)
(* C11: never two state-changing requests or remote operations outstanding *)
(* at once.                                                                *)
(***************************************************************************)
\* at most one started scan or deployment is not yet seen "Succeeded"
C11_AtMostOneOutstanding == Cardinality(outstanding) <= 1

\* where a scan POST or a deployment POST is about to be issued, every
\* operation started before has been seen "Succeeded" by a poll
C11_PostWhenNoneOutstanding ==
    pc \in {"scan_post", "deploy_post"} => outstanding = {}

\* C11: in every reachable state at most one started scan or deployment has
\* not yet been observed "Succeeded" by a poll, and each scan POST and each
\* deployment POST is issued only when every operation started earlier in
\* the run has been observed "Succeeded"
C11_Serialized == C11_AtMostOneOutstanding /\ C11_PostWhenNoneOutstanding

\* the database deployment is the one operation outstanding, the three
\* operations started before it are over
C11_Witness ==
    /\ ring = "database"
    /\ pc = "done_sleep"
    /\ Len(scanPosts) = 2
    /\ Len(depPosts) = 2
    /\ outstanding = {<<"database", "deployment">>}

(***************************************************************************)
(* C12: the machine GET returns one record per entry, and fails on a       *)
(* non-200 answer.                                                         *)
(***************************************************************************)
\* the list returned has the length and the order of the value array, each
\* record carrying the name and the address of its entry
C12_RecordPerEntry ==
    (response.kind = "machines" /\ pc # "aborted") =>
        /\ response.body.json = "object"
        /\ Len(machines) = Len(response.body.value)
        /\ \A i \in 1..Len(machines) :
              /\ machines[i].machine_name = response.body.value[i].name
              /\ machines[i].ip_address = response.body.value[i].address

\* with a non-200 answer to the machine GET in hand the call has failed
C12_Non200Fails ==
    (response.kind = "machines" /\ response.code # 200) => pc = "aborted"

\* C12 as claimed: get_patch_deployment_machines returns one record per
\* entry of the value array, in order, name and address copied verbatim,
\* and a non-200 answer to the machine GET makes the call fail instead of
\* returning a list
C12_FetchContract == C12_RecordPerEntry /\ C12_Non200Fails

(***************************************************************************)
(* C13: a non-200 answer to a readiness poll is retried in silence.        *)
(***************************************************************************)
\* whatever the body, the readiness wait goes to its sleep and raises nothing
C13_Non200Sleeps ==
    PollBy("ready_poll") /\ response'.code # 200 =>
        pc' = "ready_sleep" /\ error' = "none"

\* the sleep lasts 5 seconds and is followed by the next poll
C13_SleepThenPoll ==
    pc = "ready_sleep" /\ pc' # pc =>
        /\ pc' = "ready_poll"
        /\ sleeps' = sleeps + 1
        /\ slept' = slept + 5

\* C13 as claimed: a non-200 answer to a poll of the readiness wait,
\* whatever its body, leads to a sleep of 5 seconds and another poll; it
\* neither ends the wait nor raises an error
C13_ReadinessNon200Retried == [][C13_Non200Sleeps /\ C13_SleepThenPoll]_vars

(***************************************************************************)
(* C14: fixed-interval polling with no extra polls.                        *)
(***************************************************************************)
Waits == {"scan_poll", "ready_poll", "done_poll"}
WaitPositions == Waits \cup {SleepOf(p) : p \in Waits}

\* seconds between two polls of the wait at position p
Interval(p) == IF p = "ready_poll" THEN 5 ELSE 30

\* the answer satisfies the exit condition of the wait at position p
ExitCondition(p, resp) ==
    IF p = "ready_poll" THEN ReportsDeployment(resp)
    ELSE resp.code = 200 /\ ReportsSucceeded(resp)

\* about to poll, a wait has slept once per poll behind it; asleep, or left
\* on its k-th poll, it has slept k-1 times; each sleep took the interval
C14_Counts ==
    /\ \A p \in Waits :
          /\ pc = p => sleeps = polls /\ slept = Interval(p) * sleeps
          /\ pc = SleepOf(p) =>
                polls >= 1 /\ sleeps = polls - 1 /\ slept = Interval(p) * sleeps
    /\ pc \in {"deploy_post", "shutdown", "finished"} =>
          polls >= 1 /\ sleeps = polls - 1 /\ slept = 30 * sleeps
    /\ pc = "fetch" => polls >= 1 /\ sleeps = polls - 1 /\ slept = 5 * sleeps

\* the poll that satisfies the condition leaves the wait with no sleep after
\* it, every other answered poll is followed by one sleep and the sleep by
\* the next poll
C14_OneSleepBetweenPolls ==
    \A p \in Waits :
        /\ PollBy(p) /\ ExitCondition(p, response') =>
              Leaves(p) /\ sleeps' = sleeps /\ slept' = slept
        /\ PollBy(p) /\ ~ExitCondition(p, response') /\ pc' # "aborted" =>
              pc' = SleepOf(p) /\ sleeps' = sleeps
        /\ pc = SleepOf(p) /\ pc' # pc =>
              /\ pc' = p
              /\ polls' = polls
              /\ sleeps' = sleeps + 1
              /\ slept' = slept + Interval(p)
        /\ pc = p /\ pc' # pc => PollBy(p)

\* once a wait is left it polls no more: the poll count stands until the
\* next POST or machine GET starts the next wait
C14_NoPollAfterwards ==
    pc \notin WaitPositions =>
        \/ polls' = polls /\ polled' = polled
        \/ polls' = 0 /\ (ScanPostStep \/ DeployPostStep \/ FetchStep)

\* C14: a wait whose k-th answer is the first to satisfy its exit condition
\* performs exactly k polls and k-1 sleeps, of 30 seconds in a completion
\* wait and of 5 seconds in the readiness wait, one sleep between two
\* consecutive polls, none after the last, and no poll afterwards
C14_FixedInterval ==
    []C14_Counts /\ [][C14_OneSleepBetweenPolls /\ C14_NoPollAfterwards]_vars

\* the scan wait ended on its second poll after one sleep of 30 seconds
C14_Witness ==
    /\ pc = "deploy_post"
    /\ polls = 2
    /\ sleeps = 1
    /\ slept = 30
    /\ ExitCondition("scan_poll", response)

\* the readiness wait ended on its second poll after one sleep of 5 seconds
C14_WitnessReadiness ==
    /\ pc = "fetch"
    /\ polls = 2
    /\ sleeps = 1
    /\ slept = 5

(***************************************************************************)
(* C15: each polling loop runs until its terminal condition.               *)
(***************************************************************************)
\* once the server answers every poll with the awaited value, the wait
\* under way, whichever it is, comes to its end: the script gets to the
\* request that follows the wait
C15_WaitEnds ==
    (env = "settled" /\ pc \in WaitPositions) ~> (pc \notin WaitPositions)

\* the run is over, the database ring's shutdown commands issued
Completed ==
    /\ pc = "finished"
    /\ ring = "database"
    /\ Len(scanPosts) = 2
    /\ Len(depPosts) = 2
    /\ Len(shutdowns) = Len(machines)

\* with every other call succeeding, the whole workflow reaches its end
C15_WorkflowEnds == (env = "settled" /\ pc # "aborted") ~> Completed

\* C15: under weak fairness of the script's steps, once the server answers
\* every poll of an operation with 200 and the awaited value each wait
\* terminates, and with all other calls succeeding the workflow reaches its
\* end with the database ring's shutdown commands issued
C15_Terminates == C15_WaitEnds /\ C15_WorkflowEnds

\* the run is over after a completion wait that went beyond MaxPolls polls:
\* the server settled while the wait was under way
C15_Witness ==
    /\ Completed
    /\ env = "settled"
    /\ polls > MaxPolls
    /\ Len(shutdowns) > 0

(***************************************************************************)
(* C16: identifiers are resolved once per run and reused.                  *)
(***************************************************************************)
\* the listing GETs issued are the first of the five resolutions, in their
\* order, one GET each
C16_EachOnce ==
    /\ Len(gets) <= Len(Resolutions)
    /\ \A k \in 1..Len(gets) : gets[k] = Resolutions[k].endpoint

\* all five precede the first state-changing request, none follows one
C16_BeforeFirstPost ==
    (scanPosts # <<>> \/ depPosts # <<>> \/ shutdowns # <<>>) =>
        Len(gets) = Len(Resolutions)

\* what a resolution has assigned is the id of its own listing, or None
C16_AsResolved ==
    \A k \in 1..Len(Resolutions) :
        idvars[k] \in {Undefined, None} \cup RunItemIds(Resolutions[k].name)

\* every scan POST carries the credential id and the scan template id
\* resolved at the start and the machine group id of its own ring, every
\* deployment POST the deployment template id
C16_Reused ==
    /\ \A i \in 1..Len(scanPosts) :
          /\ scanPosts[i].runAsCredentialId = credential_id
          /\ scanPosts[i].templateId = scan_template_id
          /\ scanPosts[i].machineGroupIds =
                << IF i = 1 THEN machine_group_server_id
                   ELSE machine_group_database_id >>
    /\ \A i \in 1..Len(depPosts) : depPosts[i].templateId = deployment_template_id

\* C16: each of the five resolution GETs is issued once, all before the
\* first scan POST and none after a state-changing request; both scan POSTs
\* carry the same credential id and scan template id, both deployment POSTs
\* the same deployment template id, each scan POST its own ring's group id
C16_ResolvedOnce ==
    C16_EachOnce /\ C16_BeforeFirstPost /\ C16_AsResolved /\ C16_Reused

\* a finished run: five GETs, two scans on different machine groups with
\* the same credential and template
C16_Witness ==
    /\ pc = "finished"
    /\ Len(gets) = 5
    /\ Len(scanPosts) = 2
    /\ Len(depPosts) = 2
    /\ scanPosts[1].machineGroupIds = <<"grp-1">>
    /\ scanPosts[2].machineGroupIds = <<"grp-2">>
    /\ scanPosts[1].runAsCredentialId = "cred-1"
    /\ scanPosts[2].runAsCredentialId = "cred-1"

(***************************************************************************)
(* C17: state-changing requests are never retried or repeated.             *)
(***************************************************************************)
InWaitOf(p) == pc \in {p, SleepOf(p)}

\* number of the ring in progress
RingCount == IF ring = "server" THEN 1 ELSE 2

\* a ring issues at most one scan POST and at most one deployment POST
C17_OnePostPerRing ==
    /\ Len(scanPosts) <= RingCount
    /\ Len(depPosts) <= Len(scanPosts)
    /\ ring = "database" => Len(scanPosts) >= 1 /\ Len(depPosts) >= 1

\* a completed run has issued exactly two of each
C17_TwoInCompletedRun ==
    pc = "finished" => Len(scanPosts) = 2 /\ Len(depPosts) = 2

\* while a polling loop runs, the requests issued so far are those that
\* came before the loop: nothing was posted, fetched, resolved or shut down
\* since, and the only operation polled is the one awaited
C17_OnlyPollsInLoop ==
    /\ pc \in WaitPositions =>
          /\ Len(gets) = Len(Resolutions)
          /\ Len(scanPosts) = RingCount
    /\ InWaitOf("scan_poll") =>
          /\ Len(depPosts) = RingCount - 1
          /\ fetches = RingCount - 1
          /\ polled \subseteq {scan_id[ring]}
    /\ InWaitOf("ready_poll") =>
          /\ Len(depPosts) = RingCount
          /\ fetches = RingCount - 1
          /\ polled \subseteq {deployment_id}
    /\ InWaitOf("done_poll") =>
          /\ Len(depPosts) = RingCount
          /\ fetches = RingCount
          /\ shutdowns = <<>>
          /\ polled \subseteq {deployment_id}

\* C17: in any run, complete or not, at most one scan POST and at most one
\* deployment POST is issued per ring, exactly two of each in a completed
\* run, and while a polling loop is running the only requests issued are
\* polls of the one operation awaited
C17_NoRepeat == C17_OnePostPerRing /\ C17_TwoInCompletedRun /\ C17_OnlyPollsInLoop

\* the database scan wait has polled twice and slept twice: two scan POSTs,
\* one deployment POST
C17_Witness ==
    /\ ring = "database"
    /\ pc = "scan_poll"
    /\ polls = 2
    /\ sleeps = 2
    /\ Len(scanPosts) = 2
    /\ Len(depPosts) = 1
    /\ polled = {scan_id["database"]}

(***************************************************************************)
(* C18: shutdown exit codes are not interpreted, shutdowns not retried.    *)
(***************************************************************************)
\* the commands issued go to the list's entries in order, one per entry:
\* no entry has a second command
C18_OneCommandEach ==
    /\ Len(shutdowns) <= Len(machines)
    /\ \A i \in 1..Len(shutdowns) : shutdowns[i].ip = machines[i].ip_address

\* whatever the exit codes so far, a stage that has begun goes on with the
\* next machine until the list is through and raises nothing
C18_RemainingFollow ==
    (shutdowns # <<>> /\ Len(shutdowns) < Len(machines)) =>
        /\ pc = "shutdown"
        /\ error = "none"
        /\ idx = Len(shutdowns) + 1

\* with the list through, the server ring is followed by the database ring
\* and the database ring by the end of the run
C18_NextRingFollows ==
    (shutdowns # <<>> /\ Len(shutdowns) = Len(machines)) =>
        IF FetchedRing = "server"
        THEN ring = "database" /\ Len(scanPosts) >= 1
        ELSE pc = "finished" /\ error = "none"

\* the exit code is kept as returned and read by nothing: a run that has
\* issued no command has none but the initial 0
C18_CodeOnlyReturned ==
    /\ result \in ExitCodes
    /\ (fetches = 0 \/ (fetches = 1 /\ shutdowns = <<>>)) => result = 0

\* C18: every machine of the fetched list receives exactly one shutdown
\* command whatever exit codes the earlier commands returned; a non-zero
\* exit code neither stops the remaining shutdowns, nor triggers a second
\* command for the same machine, nor keeps the workflow from the next ring
C18_ExitCodesIgnored ==
    /\ C18_OneCommandEach
    /\ C18_RemainingFollow
    /\ C18_NextRingFollows
    /\ C18_CodeOnlyReturned

\* the first of two server shutdowns returned a non-zero exit code and the
\* loop is about to issue the second
C18_Witness ==
    /\ ring = "server"
    /\ pc = "shutdown"
    /\ result # 0
    /\ Len(machines) = 2
    /\ Len(shutdowns) = 1

\* the last server shutdown returned a non-zero exit code and the database
\* ring's scan is under way
C18_WitnessNextRing ==
    /\ ring = "database"
    /\ pc = "scan_poll"
    /\ result # 0
    /\ Len(shutdowns) = Len(machines)
    /\ Len(shutdowns) = 2

(***************************************************************************)
(* C19: the deployment id is the trailing segment of the Location header.  *)
(***************************************************************************)
\* positions of the "/" in s
Slashes(s) == {i \in 1..Len(s) : s[i] = "/"}

\* the text of s after its last "/": all of s when it has none
AfterLastSlash(s) ==
    IF Slashes(s) = {} THEN s
    ELSE LET last == CHOOSE i \in Slashes(s) : \A j \in Slashes(s) : j <= i
         IN SubSeq(s, last + 1, Len(s))

\* with the answer to the deployment POST in hand and the call returned,
\* the id is the text after the last "/" of the header, the empty string
\* for a header ending in "/", and not the id of the body
C19_FromHeader ==
    (response.kind = "deploy" /\ pc # "aborted") =>
        /\ response.hasLocation
        /\ deployment_id = AfterLastSlash(response.Location)
        /\ deployment_id # response.body.id
        /\ (Len(response.Location) > 0
            /\ response.Location[Len(response.Location)] = "/") =>
              deployment_id = <<>>

\* an answer without the header makes the call fail
C19_NoHeaderFails ==
    (response.kind = "deploy" /\ ~response.hasLocation) =>
        pc = "aborted" /\ error = "KeyError"

\* the id returned is the one the two waits poll and the machine GET names
C19_IdUsed ==
    /\ (InWaitOf("ready_poll") \/ InWaitOf("done_poll")) =>
          polled \subseteq {deployment_id}
    /\ (pc \in {"done_poll", "done_sleep", "shutdown", "finished"}) =>
          fetched = deployment_id
    /\ response.kind = "machines" => fetched = deployment_id

\* C19: patch_deployment returns the text after the last "/" of the
\* response's Location header, never a value of the body; that id is the
\* one polled afterwards and used for the machine GET; a header ending in
\* "/" gives the empty string and a response without the header fails
C19_TrailingSegment == C19_FromHeader /\ C19_NoHeaderFails /\ C19_IdUsed

\* the header "/d" gave the id "d", which was polled and fetched
C19_Witness ==
    /\ pc = "done_poll"
    /\ polls = 1
    /\ deployment_id = <<"d">>
    /\ polled = {<<"d">>}
    /\ fetched = <<"d">>

\* the header "d/" gave the empty id
C19_WitnessEmpty ==
    /\ response.kind = "deploy"
    /\ response.hasLocation
    /\ response.Location = <<"d", "/">>
    /\ pc = "ready_poll"
    /\ deployment_id = <<>>

(***************************************************************************)
(* C20: the power-on stage waits until every database machine accepts a    *)
(* connection.                                                             *)
(***************************************************************************)
\* a pass over the database machines is over and line 403 was evaluated
PassCompared ==
    /\ ss_pc \notin {"login", "check", "compare"}
    /\ Len(connected) = Len(fn_args[2])
    /\ session_id # Undefined

\* every database machine of the list accepted the connection in the pass
AllConnected == \A i \in 1..Len(connected) : connected[i]

\* C20 as claimed: after a pass the loop is left, for the power-on requests,
\* exactly when the number of database machines that accepted a connection
\* equals the length of the list, and sleeps 15 seconds before the next
\* pass otherwise
C20_PowerOnAfterAllReachable ==
    PassCompared =>
        /\ fn_ret = NoResult
        /\ ss_pc = IF AllConnected THEN "power_on" ELSE "sleep"
====
